---------------------------- MODULE Spec2Model ----------------------------
(***************************************************************************)
(* Model of the Tri-Tender pricing engine (src/pricing_engine.py) and of   *)
(* the tools that call it (src/server.py).                                 *)
(*                                                                         *)
(* Number representation.  The program computes with binary floating point *)
(* numbers; the model computes the same products and sums exactly, as      *)
(* scaled integers:                                                        *)
(*   - quantities and base unit costs are whole numbers;                   *)
(*   - a risk multiplier m is held as 100*m ("hundredths");                *)
(*   - a percentage p is a multiple of 5, so p/100 = (p \div 5)/20;        *)
(*   - an unrounded amount is a record [num, den] meaning num/den currency *)
(*     units, den being 100, 2000, 40000 or 800000 along the cascade;      *)
(*   - an amount after round(x, 2) is a whole number of cents.             *)
(* Within the bounds of the model the floating point error of an amount is *)
(* below 1e-11 while an amount that is not exactly half way between two    *)
(* cents is at least 1e-6 away from the half way point, so round(x, 2) of  *)
(* the float is the nearest cent of the exact value.  When the exact value *)
(* is half way between two cents the float may lie on either side: the     *)
(* model then allows both cents.                                           *)
(***************************************************************************)
EXTENDS Integers, Sequences, FiniteSets, TLC

VARIABLES
    pc,                 \* "request": a tool call is pending; "done": it returned
    tool,               \* the tool being called
    pricing_items,      \* argument: the list of item dicts
    strategy,           \* argument of build_pricing_model
    strategies,         \* argument of compare_pricing_scenarios (None or a list)
    overhead_pct,       \* argument
    profit_margin_pct,  \* argument
    contingency_pct,    \* argument
    tax_rate_pct,       \* argument
    currency_symbol,    \* argument
    tender_id,                  \* argument of pricing_entrypoint
    tender_title,               \* argument of pricing_entrypoint (None or a string)
    tender_reference,           \* argument of pricing_entrypoint (None or a string)
    tender_type,                \* argument of pricing_entrypoint
    pricing_requirements,       \* argument of pricing_entrypoint (None or a list)
    parsed_pricing_spec_text,   \* argument of pricing_entrypoint (None or a string)
    response            \* the value the tool returned (None while pending)

vars == <<pc, tool, pricing_items, strategy, strategies, overhead_pct,
          profit_margin_pct, contingency_pct, tax_rate_pct, currency_symbol,
          tender_id, tender_title, tender_reference, tender_type,
          pricing_requirements, parsed_pricing_spec_text, response>>

args == <<tool, pricing_items, strategy, strategies, overhead_pct,
          profit_margin_pct, contingency_pct, tax_rate_pct, currency_symbol,
          tender_id, tender_title, tender_reference, tender_type,
          pricing_requirements, parsed_pricing_spec_text>>

-----------------------------------------------------------------------------
(* Bounds of the model *)

\* longest item list of a request
MaxItems == 2

\* longest explicit strategies list of a compare_pricing_scenarios request
MaxStrategies == 2

\* longest pricing_requirements list of a pricing_entrypoint request
MaxRequirements == 2

-----------------------------------------------------------------------------
(* Python values *)

None == "<None>"

\* an Optional list or dict: Omitted is None, Given(l) is the list or dict l
Omitted == <<>>

Given(l) == <<l>>

RECURSIVE SeqsUpTo(_, _)
\* all sequences over S of length at most n
SeqsUpTo(S, n) ==
    IF n = 0 THEN {<<>>}
    ELSE LET shorter == SeqsUpTo(S, n - 1)
         IN  shorter \cup {Append(s, x) : s \in {t \in shorter : Len(t) = n - 1}, x \in S}

-----------------------------------------------------------------------------
(* PricingItemInput: the dataclass and its defaults *)

ItemKeys == {"description", "quantity", "unit", "category", "base_unit_cost",
             "risk_level", "notes", "cost_basis_hint", "escalation_hint"}

\* default of a dataclass field
FieldDefault(key) ==
    CASE key = "quantity"       -> 1
      [] key = "unit"           -> "unit"
      [] key = "category"       -> "other"
      [] key = "base_unit_cost" -> 0
      [] key = "risk_level"     -> "medium"
      [] OTHER                  -> None

\* PricingItemInput(**item) raises TypeError when the required description
\* is missing or when the dict has a key that is no field
ItemConstructible(item) ==
    /\ "description" \in DOMAIN item
    /\ DOMAIN item \subseteq ItemKeys

\* PricingItemInput(**item): every field but description takes its default
\* when the dict has no such key
PricingItemInput(item) ==
    [key \in ItemKeys |->
        IF key \in DOMAIN item THEN item[key] ELSE FieldDefault(key)]

\* [PricingItemInput(**item) for item in pricing_items]
TypedItems(items) == [k \in 1..Len(items) |-> PricingItemInput(items[k])]

-----------------------------------------------------------------------------
(* _risk_multiplier, in hundredths *)

RiskBaseWrongDefault(risk_level) ==
    CASE risk_level = "low"    -> 100
      [] risk_level = "medium" -> 105
      [] risk_level = "high"   -> 110
      [] OTHER                 -> 100

RiskBase(risk_level) ==
    CASE risk_level = "low"    -> 100
      [] risk_level = "medium" -> 105
      [] risk_level = "high"   -> 110
      [] OTHER                 -> 105

MultiplierFloor == 90

Max(a, b) == IF a >= b THEN a ELSE b

StrategyAdjustSwapped(base, strat) ==
    CASE strat = "low_cost" -> base + 3
      [] strat = "premium"  -> base - 2
      [] OTHER              -> base

StrategyAdjust(base, strat) ==
    CASE strat = "low_cost" -> base - 2
      [] strat = "premium"  -> base + 3
      [] OTHER              -> base

_risk_multiplier(risk_level, strat) ==
    Max(StrategyAdjust(RiskBase(risk_level), strat), MultiplierFloor)

-----------------------------------------------------------------------------
(* Exact amounts and round(x, 2) *)

Amount(n, d) == [num |-> n, den |-> d]

\* x * (k / f) for an amount x
Scale(x, k, f) == Amount(x.num * k, x.den * f)

\* x * (pct / 100.0), pct a multiple of 5
TimesPct(x, pct) == Scale(x, pct \div 5, 20)

\* x brought to the denominator d, a multiple of x.den
Over(x, d) == x.num * (d \div x.den)

\* x + y, the denominator of one dividing that of the other
Plus(x, y) ==
    LET d == Max(x.den, y.den)
    IN  Amount(Over(x, d) + Over(y, d), d)

\* the cents round(x, 2) can return: the nearest cent of x, either
\* neighbour when x is exactly half way (the float decides)
Round2(x) ==
    LET u == x.den \div 100
        q == x.num \div u
        r == x.num % u
    IN  IF 2 * r < u THEN {q}
        ELSE IF 2 * r > u THEN {q + 1}
        ELSE {q, q + 1}

\* a whole number of currency units as an amount
Whole(n) == Amount(n * 100, 100)

\* round(x, 2) of an amount that is a whole number of cents
Round2Cents(x) == CHOOSE c \in Round2(x) : TRUE

-----------------------------------------------------------------------------
(* build_pricing_table *)

\* the multiplier looked up for the default level, not the item's
RiskMultOfDefaultLevel(item, strat) == _risk_multiplier("medium", strat)

\* risk_mult, effective_unit_cost and direct_cost of one item
RiskMult(item, strat) == _risk_multiplier(item.risk_level, strat)

\* item.base_unit_cost * risk_mult: a whole number times hundredths
EffectiveUnitCost(item, strat) ==
    Scale(Amount(RiskMult(item, strat), 100), item.base_unit_cost, 1)

\* effective_unit_cost * (item.quantity or 1)
DirectCostQuantityOrOne(item, strat) ==
    Scale(EffectiveUnitCost(item, strat),
          IF item.quantity = 0 THEN 1 ELSE item.quantity, 1)

DirectCost(item, strat) ==
    Scale(EffectiveUnitCost(item, strat), item.quantity, 1)

\* the same with line_no counted from 0 (enumerate without start=1)
LineItemOutputFromZero(idx, item, strat) ==
    [line_no                 |-> idx - 1,
     description             |-> item.description,
     quantity                |-> item.quantity,
     unit                    |-> item.unit,
     category                |-> item.category,
     risk_level              |-> item.risk_level,
     base_unit_cost          |-> Round2Cents(Whole(item.base_unit_cost)),
     effective_unit_cost     |-> Round2Cents(EffectiveUnitCost(item, strat)),
     line_total_excl_markups |-> Round2Cents(DirectCost(item, strat)),
     notes                   |-> item.notes,
     cost_basis_hint         |-> item.cost_basis_hint,
     escalation_hint         |-> item.escalation_hint]

\* the dict appended to line_items_output for the idx-th item
LineItemOutput(idx, item, strat) ==
    [line_no                 |-> idx,
     description             |-> item.description,
     quantity                |-> item.quantity,
     unit                    |-> item.unit,
     category                |-> item.category,
     risk_level              |-> item.risk_level,
     base_unit_cost          |-> Round2Cents(Whole(item.base_unit_cost)),
     effective_unit_cost     |-> Round2Cents(EffectiveUnitCost(item, strat)),
     line_total_excl_markups |-> Round2Cents(DirectCost(item, strat)),
     notes                   |-> item.notes,
     cost_basis_hint         |-> item.cost_basis_hint,
     escalation_hint         |-> item.escalation_hint]

RECURSIVE ItemLoop(_, _, _, _)
\* the for loop over enumerate(typed_items, start=1), from index idx on,
\* with the locals subtotal_direct_cost and line_items_output
ItemLoop(typed_items, strat, idx, acc) ==
    IF idx > Len(typed_items) THEN acc
    ELSE ItemLoop(typed_items, strat, idx + 1,
            [subtotal_direct_cost |->
                Plus(acc.subtotal_direct_cost, DirectCost(typed_items[idx], strat)),
             line_items_output |->
                Append(acc.line_items_output,
                       LineItemOutput(idx, typed_items[idx], strat))])

ItemLoopResult(typed_items, strat) ==
    ItemLoop(typed_items, strat, 1,
             [subtotal_direct_cost |-> Whole(0), line_items_output |-> <<>>])

\* the markup cascade on the unrounded subtotal
OverheadAmount(sub, o_pct) == TimesPct(sub, o_pct)

ContingencyAmount(sub, c_pct) == TimesPct(sub, c_pct)

ProfitBaseSubtotalOnly(sub, o_pct, c_pct) == sub

ProfitBase(sub, o_pct, c_pct) ==
    Plus(Plus(sub, OverheadAmount(sub, o_pct)), ContingencyAmount(sub, c_pct))

ProfitAmount(sub, o_pct, c_pct, p_pct) ==
    TimesPct(ProfitBase(sub, o_pct, c_pct), p_pct)

TotalExclTaxMarkupsOnly(sub, o_pct, c_pct, p_pct) ==
    Plus(Plus(OverheadAmount(sub, o_pct), ContingencyAmount(sub, c_pct)),
         ProfitAmount(sub, o_pct, c_pct, p_pct))

TotalExclTax(sub, o_pct, c_pct, p_pct) ==
    Plus(Plus(Plus(sub, OverheadAmount(sub, o_pct)),
              ContingencyAmount(sub, c_pct)),
         ProfitAmount(sub, o_pct, c_pct, p_pct))

TaxAmount(excl, t_pct) == TimesPct(excl, t_pct)

TotalInclTax(excl, t_pct) == Plus(excl, TaxAmount(excl, t_pct))

\* the totals dicts build_pricing_table can produce: one, unless an amount
\* is exactly half way between two cents.  Two amounts that are the same
\* float round alike: contingency_amount and overhead_amount when their
\* percentages are equal, total_incl_tax and total_excl_tax when the tax
\* rate is 0 (total_excl_tax + 0.0)
TotalsDicts(sub, o_pct, p_pct, c_pct, t_pct, cur) ==
    LET excl == TotalExclTax(sub, o_pct, c_pct, p_pct)
    IN  {[currency_symbol      |-> cur,
          subtotal_direct_cost |-> r_sub,
          overhead_pct         |-> o_pct,
          overhead_amount      |-> r_ov,
          contingency_pct      |-> c_pct,
          contingency_amount   |-> IF c_pct = o_pct THEN r_ov ELSE r_cont,
          profit_margin_pct    |-> p_pct,
          profit_amount        |-> r_profit,
          tax_rate_pct         |-> t_pct,
          tax_amount           |-> r_tax,
          total_excl_tax       |-> r_excl,
          total_incl_tax       |-> IF t_pct = 0 THEN r_excl ELSE r_incl] :
            r_sub    \in Round2(sub),
            r_ov     \in Round2(OverheadAmount(sub, o_pct)),
            r_cont   \in Round2(ContingencyAmount(sub, c_pct)),
            r_profit \in Round2(ProfitAmount(sub, o_pct, c_pct, p_pct)),
            r_tax    \in Round2(TaxAmount(excl, t_pct)),
            r_excl   \in Round2(excl),
            r_incl   \in Round2(TotalInclTax(excl, t_pct))}

\* the values build_pricing_table can return
build_pricing_table(typed_items, strat, o_pct, p_pct, c_pct, t_pct, cur) ==
    LET loop == ItemLoopResult(typed_items, strat)
    IN  {[strategy   |-> strat,
          inputs     |-> [overhead_pct      |-> o_pct,
                          profit_margin_pct |-> p_pct,
                          contingency_pct   |-> c_pct,
                          tax_rate_pct      |-> t_pct,
                          currency_symbol   |-> cur],
          line_items |-> loop.line_items_output,
          totals     |-> totals] :
            totals \in TotalsDicts(loop.subtotal_direct_cost,
                                   o_pct, p_pct, c_pct, t_pct, cur)}

-----------------------------------------------------------------------------
(* Python dict with insertion order: a sequence of [key, value] entries *)

DictKeys(d) == [i \in 1..Len(d) |-> d[i].key]

DictHas(d, k) == \E i \in 1..Len(d) : d[i].key = k

DictGet(d, k) == d[CHOOSE i \in 1..Len(d) : d[i].key = k].value

\* d[k] = v: a new key goes last, a known key keeps its place
DictSet(d, k, v) ==
    IF DictHas(d, k)
    THEN [i \in 1..Len(d) |-> IF d[i].key = k THEN [key |-> k, value |-> v] ELSE d[i]]
    ELSE Append(d, [key |-> k, value |-> v])

-----------------------------------------------------------------------------
(* compare_pricing_scenarios *)

DefaultStrategies == <<"low_cost", "balanced", "premium">>

\* if strategies is None: strategies = [...]
EffectiveStrategiesNoneOnly(strats) ==
    IF strats = Omitted THEN DefaultStrategies ELSE strats[1]

\* if strategies is None or len(strategies) == 0: strategies = [...]
EffectiveStrategies(strats) ==
    IF strats = Omitted \/ Len(strats[1]) = 0 THEN DefaultStrategies ELSE strats[1]

\* the row appended to comparison_list
SummaryRow(strat, model) ==
    [strategy           |-> strat,
     total_excl_tax     |-> model.totals.total_excl_tax,
     total_incl_tax     |-> model.totals.total_incl_tax,
     profit_amount      |-> model.totals.profit_amount,
     overhead_amount    |-> model.totals.overhead_amount,
     contingency_amount |-> model.totals.contingency_amount]

RECURSIVE StrategyLoopOncePerStrategy(_, _, _, _)
\* the loop skipping a strategy it has already priced
StrategyLoopOncePerStrategy(strats, model_of, i, acc) ==
    IF i > Len(strats) THEN acc
    ELSE StrategyLoopOncePerStrategy(strats, model_of, i + 1,
            IF DictHas(acc.scenarios, strats[i]) THEN acc
            ELSE [scenarios |->
                    DictSet(acc.scenarios, strats[i], model_of[strats[i]]),
                  comparison_list |->
                    Append(acc.comparison_list,
                           SummaryRow(strats[i], model_of[strats[i]]))])

RECURSIVE StrategyLoop(_, _, _, _)
\* the for loop over strategies, from position i on, with the locals
\* scenarios and comparison_list; model_of[strat] is what
\* build_pricing_table returns for strat
StrategyLoop(strats, model_of, i, acc) ==
    IF i > Len(strats) THEN acc
    ELSE StrategyLoop(strats, model_of, i + 1,
            [scenarios |->
                DictSet(acc.scenarios, strats[i], model_of[strats[i]]),
             comparison_list |->
                Append(acc.comparison_list,
                       SummaryRow(strats[i], model_of[strats[i]]))])

\* the calls with profit and contingency percentages in each other's place
ModelChoicesSwappedPercentages(typed_items, strats, o_pct, p_pct, c_pct, t_pct, cur) ==
    LET S == {strats[i] : i \in 1..Len(strats)}
        R(st) == build_pricing_table(typed_items, st, o_pct, c_pct, p_pct, t_pct, cur)
    IN  {f \in [S -> UNION {R(st) : st \in S}] : \A st \in S : f[st] \in R(st)}

\* build_pricing_table is a function of its arguments: one returned value
\* per strategy, the same whenever the strategy is listed again
ModelChoices(typed_items, strats, o_pct, p_pct, c_pct, t_pct, cur) ==
    LET S == {strats[i] : i \in 1..Len(strats)}
        R(st) == build_pricing_table(typed_items, st, o_pct, p_pct, c_pct, t_pct, cur)
    IN  {f \in [S -> UNION {R(st) : st \in S}] : \A st \in S : f[st] \in R(st)}

\* the values compare_pricing_scenarios can return
compare_result(items, strats_arg, o_pct, p_pct, c_pct, t_pct, cur) ==
    LET strats == EffectiveStrategies(strats_arg)
        typed_items == TypedItems(items)
    IN  {LET loop == StrategyLoop(strats, model_of, 1,
                        [scenarios |-> <<>>, comparison_list |-> <<>>])
         IN  [scenarios  |-> loop.scenarios,
              comparison |-> [currency_symbol |-> cur,
                              by_strategy     |-> loop.comparison_list]] :
            model_of \in ModelChoices(typed_items, strats,
                                      o_pct, p_pct, c_pct, t_pct, cur)}

-----------------------------------------------------------------------------
(* Text: str.lower, the "in" test, re.search, splitlines and strip, on      *)
(* strings read character by character                                      *)

CharAt(text, i) == SubSeq(text, i, i)

UpperCase == "ABCDEFGHIJKLMNOPQRSTUVWXYZ"

LowerCase == "abcdefghijklmnopqrstuvwxyz"

Digits == "0123456789"

IsOneOf(ch, chars) == \E i \in 1..Len(chars) : CharAt(chars, i) = ch

LowerChar(ch) ==
    IF IsOneOf(ch, UpperCase)
    THEN CharAt(LowerCase, CHOOSE i \in 1..Len(UpperCase) : CharAt(UpperCase, i) = ch)
    ELSE ch

RECURSIVE Lower(_)
\* text.lower()
Lower(text) ==
    IF text = "" THEN ""
    ELSE LowerChar(CharAt(text, 1)) \o Lower(SubSeq(text, 2, Len(text)))

\* \s
IsSpace(ch) == ch \in {" ", "\n", "\t", "\r"}

\* \d
IsDigit(ch) == IsOneOf(ch, Digits)

\* \w
IsWordChar(ch) ==
    IsOneOf(ch, LowerCase) \/ IsOneOf(ch, UpperCase) \/ IsDigit(ch) \/ ch = "_"

\* text[i:].startswith(pattern), i counted from 1
StartsAt(text, i, pattern) ==
    /\ i >= 1
    /\ i + Len(pattern) - 1 <= Len(text)
    /\ SubSeq(text, i, i + Len(pattern) - 1) = pattern

\* pattern in text
Contains(text, pattern) == \E i \in 1..Len(text) : StartsAt(text, i, pattern)

\* \b at position i (between the characters i - 1 and i) after a word character
WordEndsBefore(text, i) == i > Len(text) \/ ~IsWordChar(CharAt(text, i))

\* the positions \s* can reach from position i
AfterSpaces(text, i) ==
    {j \in i..(Len(text) + 1) : \A k \in i..(j - 1) : IsSpace(CharAt(text, k))}

\* re.search of  head\s*tail
SearchSpaced(text, head, tail) ==
    \E i \in 1..Len(text) :
        /\ StartsAt(text, i, head)
        /\ \E j \in AfterSpaces(text, i + Len(head)) : StartsAt(text, j, tail)

\* re.search of  head\s*(long|short\b)
SearchSpacedWord(text, head, long, short) ==
    \E i \in 1..Len(text) :
        /\ StartsAt(text, i, head)
        /\ \E j \in AfterSpaces(text, i + Len(head)) :
                \/ StartsAt(text, j, long)
                \/ /\ StartsAt(text, j, short)
                   /\ WordEndsBefore(text, j + Len(short))

\* re.search of  non[-\s]?firm
SearchNonFirm(text) ==
    \/ Contains(text, "nonfirm")
    \/ Contains(text, "non-firm")
    \/ \E i \in 1..Len(text) :
            /\ StartsAt(text, i, "non")
            /\ i + 3 <= Len(text)
            /\ IsSpace(CharAt(text, i + 3))
            /\ StartsAt(text, i + 4, "firm")

RECURSIVE SplitLines(_)
\* text.splitlines(), the line break being "\n"
SplitLines(text) ==
    IF text = "" THEN <<>>
    ELSE IF \E i \in 1..Len(text) : CharAt(text, i) = "\n"
         THEN LET i == CHOOSE k \in 1..Len(text) :
                          /\ CharAt(text, k) = "\n"
                          /\ \A m \in 1..(k - 1) : CharAt(text, m) # "\n"
              IN  <<SubSeq(text, 1, i - 1)>> \o SplitLines(SubSeq(text, i + 1, Len(text)))
         ELSE <<text>>

\* len(ln.strip())
StrippedLen(ln) ==
    LET solid == {i \in 1..Len(ln) : ~IsSpace(CharAt(ln, i))}
    IN  IF solid = {} THEN 0
        ELSE (CHOOSE i \in solid : \A k \in solid : k <= i)
             - (CHOOSE i \in solid : \A k \in solid : k >= i) + 1

-----------------------------------------------------------------------------
(* analyze_pricing_spec_text *)

Flags(text) ==
    [mentions_firm_price       |-> Contains(text, "firm price"),
     mentions_non_firm_price   |-> SearchNonFirm(text),
     mentions_escalation       |-> Contains(text, "escalate") \/ Contains(text, "escalation"),
     mentions_vat_inclusive    |-> SearchSpacedWord(text, "vat", "inclusive", "incl"),
     mentions_vat_exclusive    |-> SearchSpacedWord(text, "vat", "exclusive", "excl"),
     mentions_provisional_sums |-> Contains(text, "provisional sum"),
     mentions_prime_costs      |-> Contains(text, "prime cost"),
     mentions_dayworks         |-> Contains(text, "daywork"),
     mentions_rate_only_items  |-> Contains(text, "rate only"),
     mentions_lumpsum          |-> SearchSpaced(text, "lump", "sum"),
     mentions_discounts        |-> Contains(text, "discount")]

DetectedCurrency(text) ==
    IF \/ Contains(text, " zar") \/ Contains(text, "south african rand")
       \/ Contains(text, "r ") \/ Contains(text, " r")
    THEN "ZAR"
    ELSE IF Contains(text, " usd") \/ Contains(text, "dollar") THEN "USD"
    ELSE IF Contains(text, " eur") \/ Contains(text, "euro") THEN "EUR"
    ELSE None

\* the lines with a digit and more than 10 characters after strip()
LineCandidates(spec_text) ==
    SelectSeq(SplitLines(spec_text),
              LAMBDA ln : /\ \E i \in 1..Len(ln) : IsDigit(CharAt(ln, i))
                          /\ StrippedLen(ln) > 10)

\* the dash of the two sentences is U+2013 in the source, written "-" here
Summary(count, ttype) ==
    "The pricing specification appears to describe approximately "
    \o ToString(count) \o " line items containing numeric values. "
    \o (IF ttype = "public"
        THEN "The tender is flagged as PUBLIC - ensure compliance with "
             \o "PPPFA, MFMA / PFMA and any prescribed pricing schedules."
        ELSE IF ttype = "private"
        THEN "The tender is flagged as PRIVATE - commercial flexibility "
             \o "may be higher but still ensure clear assumptions."
        ELSE "")

analyze_pricing_spec_text(spec_text, ttype) ==
    LET text == Lower(spec_text)
        count == Len(LineCandidates(spec_text))
    IN  [summary                 |-> Summary(count, ttype),
         flags                   |-> Flags(text),
         detected_currency       |-> DetectedCurrency(text),
         estimated_numeric_lines |-> count]

-----------------------------------------------------------------------------
(* The requests of the model *)

RiskLevelValues == {"low", "medium", "high", "extreme"}

StrategyValues == {"low_cost", "balanced", "premium", "aggressive"}

\* items that differ in cost and risk level
PricedItemDicts ==
    {[description |-> "A", quantity |-> 2, base_unit_cost |-> c, risk_level |-> r] :
        c \in {1, 100}, r \in RiskLevelValues}

\* items that differ in their descriptive fields, with zero quantities and
\* costs, and items that leave fields to their defaults
LineItemDicts ==
    {[description |-> d, quantity |-> q, unit |-> "hr", category |-> "labour",
      base_unit_cost |-> c, risk_level |-> "high", notes |-> "note",
      cost_basis_hint |-> "quote", escalation_hint |-> "cpi"] :
        d \in {"A", "B"}, q \in {0, 2}, c \in {0, 100}}
    \cup {[description |-> "C"],
          [description |-> "C", base_unit_cost |-> 100],
          [quantity |-> 2, base_unit_cost |-> 100],
          [description |-> "C", category |-> "consumables"],
          [description |-> "A", quantity |-> 2, unit |-> "hr", category |-> "labour",
           base_unit_cost |-> 0, risk_level |-> "low", notes |-> "note",
           cost_basis_hint |-> "quote", escalation_hint |-> "cpi"]}

CompareItemDicts ==
    {[description |-> "A", quantity |-> 2, base_unit_cost |-> 100, risk_level |-> "medium"],
     [description |-> "B", quantity |-> 0, base_unit_cost |-> 1, risk_level |-> "low"],
     [description |-> "C", base_unit_cost |-> 1, risk_level |-> "extreme"]}

\* the request is not one of pricing_entrypoint: its arguments are not passed
NoTenderArguments ==
    /\ tender_id = None
    /\ tender_title = None
    /\ tender_reference = None
    /\ tender_type = None
    /\ pricing_requirements = Omitted
    /\ parsed_pricing_spec_text = None

\* the request is one of pricing_entrypoint: no pricing arguments are passed
NoPricingArguments ==
    /\ pricing_items = <<>>
    /\ strategy = None
    /\ strategies = Omitted
    /\ overhead_pct = 0
    /\ profit_margin_pct = 0
    /\ contingency_pct = 0
    /\ tax_rate_pct = 0
    /\ currency_symbol = None

BuildRequest(items, strat, o_pct, p_pct, c_pct, t_pct) ==
    /\ tool = "build_pricing_model"
    /\ NoTenderArguments
    /\ pricing_items = items
    /\ strategy = strat
    /\ strategies = Omitted
    /\ overhead_pct = o_pct
    /\ profit_margin_pct = p_pct
    /\ contingency_pct = c_pct
    /\ tax_rate_pct = t_pct
    /\ currency_symbol = "R"

CompareRequest(items, strats, o_pct, p_pct, c_pct, t_pct) ==
    /\ tool = "compare_pricing_scenarios"
    /\ NoTenderArguments
    /\ pricing_items = items
    /\ strategy = None
    /\ strategies = strats
    /\ overhead_pct = o_pct
    /\ profit_margin_pct = p_pct
    /\ contingency_pct = c_pct
    /\ tax_rate_pct = t_pct
    /\ currency_symbol = "R"

EntrypointRequest(id, title, reference, ttype, requirements, spec_text) ==
    /\ tool = "pricing_entrypoint"
    /\ NoPricingArguments
    /\ tender_id = id
    /\ tender_title = title
    /\ tender_reference = reference
    /\ tender_type = ttype
    /\ pricing_requirements = requirements
    /\ parsed_pricing_spec_text = spec_text

TenderTypeValues == {"public", "private", "unknown"}

\* the dicts a parsing tool extracted from a pricing schedule
RequirementDicts ==
    {[description |-> "Site establishment", quantity |-> 1, unit |-> "sum"],
     [item_no |-> "2.1", description |-> "Excavation", unit |-> "m3"]}

\* pricing specifications: with and without lines that hold numbers, with
\* the phrases and currencies the analysis looks for, and without any
SpecTexts ==
    {"Firm Price in ZAR\nItem 1: 10 units at R 500\nVAT incl.",
     "non-firm, escalation\nLump  sum 1\nRates are VAT exclusive 15%",
     "Prices in USD dollar",
     "no 5"}

Init ==
    /\ pc = "request"
    /\ response = None
    /\ \/ \E items \in SeqsUpTo(PricedItemDicts, MaxItems),
             strat \in StrategyValues,
             o_pct \in {-150, 0, 15}, p_pct \in {0, 20},
             c_pct \in {0, 5}, t_pct \in {0, 15} :
                BuildRequest(items, strat, o_pct, p_pct, c_pct, t_pct)
       \/ \E items \in SeqsUpTo(LineItemDicts, MaxItems),
             strat \in StrategyValues :
                BuildRequest(items, strat, 15, 20, 5, 15)
       \/ \E items \in SeqsUpTo(CompareItemDicts, MaxItems),
             strats \in {Omitted} \cup
                        {Given(l) : l \in SeqsUpTo(StrategyValues, MaxStrategies)},
             o_pct \in {-150, 15} :
                CompareRequest(items, strats, o_pct, 20, 5, 15)
       \/ \E title \in {None, "Road works"},
             reference \in {None, "RFQ-7"},
             ttype \in TenderTypeValues,
             requirements \in {Omitted} \cup
                   {Given(l) : l \in SeqsUpTo(RequirementDicts, MaxRequirements)},
             spec_text \in {None, ""} \cup SpecTexts :
                EntrypointRequest("T-1", title, reference, ttype,
                                  requirements, spec_text)

-----------------------------------------------------------------------------
(* The tools *)

TypeError == [error |-> "TypeError"]

\* the conversion also refusing an empty list
AllConstructibleAndSome(items) ==
    /\ items # <<>>
    /\ \A k \in 1..Len(items) : ItemConstructible(items[k])

AllConstructible(items) == \A k \in 1..Len(items) : ItemConstructible(items[k])

\* build_pricing_model(pricing_items, strategy, ...)
build_pricing_model ==
    /\ pc = "request"
    /\ tool = "build_pricing_model"
    /\ IF AllConstructible(pricing_items)
       THEN \E pricing_table \in
                build_pricing_table(TypedItems(pricing_items), strategy,
                                    overhead_pct, profit_margin_pct,
                                    contingency_pct, tax_rate_pct, currency_symbol) :
                response' = pricing_table
       ELSE response' = TypeError
    /\ pc' = "done"
    /\ UNCHANGED args

\* compare_pricing_scenarios(pricing_items, strategies, ...)
compare_pricing_scenarios ==
    /\ pc = "request"
    /\ tool = "compare_pricing_scenarios"
    /\ IF AllConstructible(pricing_items)
       THEN \E result \in
                compare_result(pricing_items, strategies,
                               overhead_pct, profit_margin_pct,
                               contingency_pct, tax_rate_pct, currency_symbol) :
                response' = result
       ELSE response' = TypeError
    /\ pc' = "done"
    /\ UNCHANGED args

MissingInstructions ==
    "No structured pricing_requirements were provided to the "
    \o "tri-tender-pricing-mcp.\n\n"
    \o "Next steps for the client LLM (Tri-Tender Orchestrator):\n"
    \o "1) Ask the user to upload the pricing schedule / Bill of "
    \o "   Quantities (BOQ) or any annexure that contains the "
    \o "   rates, quantities and units to be priced.\n"
    \o "2) Use the 'tender-docs-mcp-file-resource' MCP to parse the "
    \o "   uploaded pricing document and extract line items into a "
    \o "   structured list.\n"
    \o "   Example (pseudo-call):\n"
    \o "     tender-docs-mcp-file-resource__extract_pricing_requirements(\n"
    \o "         file=uploaded_pricing_file\n"
    \o "     )\n"
    \o "3) Call pricing_entrypoint AGAIN, this time passing the "
    \o "   extracted pricing_requirements list into this tool.\n"

\* the source writes the tool names between back quotes, written ' here
ReadyInstructions ==
    "You may now call 'build_pricing_model' on tri-tender-pricing-mcp "
    \o "to generate a detailed pricing table, followed by "
    \o "'generate_pricing_report_html' to produce the final styled HTML "
    \o "pricing report. You may also call 'compare_pricing_scenarios' "
    \o "to run low/balanced/premium what-if comparisons."

TenderContext ==
    [tender_id        |-> tender_id,
     tender_title     |-> tender_title,
     tender_reference |-> tender_reference,
     tender_type      |-> tender_type]

\* the test passing None only
RequirementsMissingNoneOnly(requirements) == requirements = Omitted

\* not pricing_requirements
RequirementsMissing(requirements) ==
    requirements = Omitted \/ Len(requirements[1]) = 0

\* pricing_analysis: None, or the analysis of a text that is not empty
PricingAnalysis ==
    IF parsed_pricing_spec_text # None /\ parsed_pricing_spec_text # ""
    THEN Given(analyze_pricing_spec_text(parsed_pricing_spec_text, tender_type))
    ELSE Omitted

\* pricing_entrypoint(tender_id, tender_title, ...)
pricing_entrypoint ==
    /\ pc = "request"
    /\ tool = "pricing_entrypoint"
    /\ IF RequirementsMissing(pricing_requirements)
       THEN response' = [status                      |-> "missing_pricing_spec",
                         needs_pricing_spec          |-> TRUE,
                         instructions_for_client_llm |-> MissingInstructions,
                         tender_context              |-> TenderContext]
       ELSE response' = [status                      |-> "ready_for_pricing_model",
                         needs_pricing_spec          |-> FALSE,
                         instructions_for_client_llm |-> ReadyInstructions,
                         tender_context              |-> TenderContext,
                         pricing_requirements        |-> pricing_requirements[1],
                         pricing_analysis            |-> PricingAnalysis]
    /\ pc' = "done"
    /\ UNCHANGED args

Next == build_pricing_model \/ compare_pricing_scenarios \/ pricing_entrypoint

Spec == Init /\ [][Next]_vars

-----------------------------------------------------------------------------
(* What the properties below read *)

\* build_pricing_model has returned a pricing table
BuildDone ==
    /\ pc = "done"
    /\ tool = "build_pricing_model"
    /\ AllConstructible(pricing_items)

\* compare_pricing_scenarios has returned a comparison
CompareDone ==
    /\ pc = "done"
    /\ tool = "compare_pricing_scenarios"
    /\ AllConstructible(pricing_items)

\* no amount of the request is half way between two cents: the exact
\* arithmetic determines the pricing table, which is then the table the
\* program returns
TableDetermined(strat) ==
    Cardinality(build_pricing_table(TypedItems(pricing_items), strat,
                                    overhead_pct, profit_margin_pct,
                                    contingency_pct, tax_rate_pct,
                                    currency_symbol)) = 1

Abs(n) == IF n >= 0 THEN n ELSE -n

\* cents is a nearest whole number of cents to num/den currency units
NearestCent(cents, num, den) ==
    2 * Abs(cents * (den \div 100) - num) <= den \div 100

\* a percentage in twentieths
Twentieths(pct) == pct \div 5

RECURSIVE ExpectedSubtotalCents(_, _)
\* sum over the items of base_unit_cost x multiplier x quantity, in cents
ExpectedSubtotalCents(typed_items, strat) ==
    IF typed_items = <<>> THEN 0
    ELSE LET item == Head(typed_items)
         IN  item.base_unit_cost * _risk_multiplier(item.risk_level, strat) * item.quantity
             + ExpectedSubtotalCents(Tail(typed_items), strat)

PercentagesPositive ==
    overhead_pct > 0 /\ contingency_pct > 0 /\ profit_margin_pct > 0

PercentagesNonNegative ==
    overhead_pct >= 0 /\ contingency_pct >= 0 /\ profit_margin_pct >= 0

-----------------------------------------------------------------------------
(* C1: the stored totals satisfy total_incl_tax - total_excl_tax =          *)
(* tax_amount exactly, whatever the items and the percentages.              *)
(* The three amounts are rounded separately, so the code breaks this; it    *)
(* is stated on the responses the exact arithmetic determines.              *)
C1_TaxConsistency ==
    (BuildDone /\ TableDetermined(strategy)) =>
        response.totals.total_incl_tax - response.totals.total_excl_tax
            = response.totals.tax_amount

-----------------------------------------------------------------------------
(* C2: the totals follow the fixed cascade on unrounded values: subtotal =  *)
(* sum of base_unit_cost x multiplier x quantity, overhead and contingency  *)
(* are percentages of the subtotal, profit is a percentage of subtotal +    *)
(* overhead + contingency, tax is a percentage of the total before tax, and *)
(* each stored amount is that value rounded to cents only at output.        *)
(* Scenario A (100 x 2, medium, balanced, 15/5/20/15) gives 210.00, 31.50,  *)
(* 10.50, 50.40, 302.40, 45.36, 347.76.                                     *)
ScenarioA ==
    /\ BuildDone
    /\ pricing_items = <<[description |-> "A", quantity |-> 2,
                          base_unit_cost |-> 100, risk_level |-> "medium"]>>
    /\ strategy = "balanced"
    /\ overhead_pct = 15 /\ contingency_pct = 5
    /\ profit_margin_pct = 20 /\ tax_rate_pct = 15

C2_Cascade ==
    BuildDone =>
        LET t    == response.totals
            sub  == ExpectedSubtotalCents(TypedItems(pricing_items), strategy)
            o    == Twentieths(overhead_pct)
            c    == Twentieths(contingency_pct)
            p    == Twentieths(profit_margin_pct)
            x    == Twentieths(tax_rate_pct)
            excl == sub * (20 + o + c) * (20 + p)
        IN  /\ t.subtotal_direct_cost = sub
            /\ NearestCent(t.overhead_amount, sub * o, 2000)
            /\ NearestCent(t.contingency_amount, sub * c, 2000)
            /\ NearestCent(t.profit_amount, sub * (20 + o + c) * p, 40000)
            /\ NearestCent(t.total_excl_tax, excl, 40000)
            /\ NearestCent(t.tax_amount, excl * x, 800000)
            /\ NearestCent(t.total_incl_tax, excl * (20 + x), 800000)
            /\ ScenarioA =>
                    /\ response.line_items[1].effective_unit_cost = 10500
                    /\ response.line_items[1].line_total_excl_markups = 21000
                    /\ t.subtotal_direct_cost = 21000
                    /\ t.overhead_amount = 3150
                    /\ t.contingency_amount = 1050
                    /\ t.profit_amount = 5040
                    /\ t.total_excl_tax = 30240
                    /\ t.tax_amount = 4536
                    /\ t.total_incl_tax = 34776

C2_Witness == ScenarioA

-----------------------------------------------------------------------------
(* C3: with the same items and percentages, total_excl_tax under low_cost   *)
(* is at most that under balanced, which is at most that under premium.     *)
AllThreeCompared ==
    /\ CompareDone
    /\ \A st \in {"low_cost", "balanced", "premium"} :
            DictHas(response.scenarios, st)

ScenarioTotalExclTax(st) == DictGet(response.scenarios, st).totals.total_excl_tax

StrategyOrdering ==
    /\ ScenarioTotalExclTax("low_cost") <= ScenarioTotalExclTax("balanced")
    /\ ScenarioTotalExclTax("balanced") <= ScenarioTotalExclTax("premium")

\* the claim as stated: for any percentages (read on the responses the
\* exact arithmetic determines)
C3_StrategyOrdering_AnyPercentages ==
    (AllThreeCompared /\ \A st \in {"low_cost", "balanced", "premium"} : TableDetermined(st))
        => StrategyOrdering

\* C3 as amended: the ordering holds when overhead, contingency and profit
\* percentages are not negative
C3_StrategyOrdering == (AllThreeCompared /\ PercentagesNonNegative) => StrategyOrdering

C3_Witness ==
    /\ AllThreeCompared
    /\ PercentagesNonNegative
    /\ ScenarioTotalExclTax("low_cost") < ScenarioTotalExclTax("balanced")
    /\ ScenarioTotalExclTax("balanced") < ScenarioTotalExclTax("premium")

-----------------------------------------------------------------------------
(* C4: with overhead, contingency and profit percentages all above 0,       *)
(* total_excl_tax is strictly above subtotal_direct_cost.                   *)

\* the claim as stated: strictly, for any item list
C4_StrictlyAboveSubtotal ==
    (BuildDone /\ PercentagesPositive) =>
        response.totals.total_excl_tax > response.totals.subtotal_direct_cost

\* overhead + contingency + profit before rounding come to two cents or more
MarkupsAtLeastTwoCents ==
    LET sub == ExpectedSubtotalCents(TypedItems(pricing_items), strategy)
    IN  sub * ((20 + Twentieths(overhead_pct) + Twentieths(contingency_pct))
               * (20 + Twentieths(profit_margin_pct)) - 400) >= 800

\* C4 as amended: total_excl_tax is never below subtotal_direct_cost, and is
\* strictly above it when the unrounded markups come to two cents or more
C4_NotBelowSubtotal ==
    (BuildDone /\ PercentagesPositive) =>
        /\ response.totals.total_excl_tax >= response.totals.subtotal_direct_cost
        /\ MarkupsAtLeastTwoCents =>
                response.totals.total_excl_tax > response.totals.subtotal_direct_cost

C4_Witness ==
    /\ BuildDone
    /\ PercentagesPositive
    /\ MarkupsAtLeastTwoCents
    /\ Len(pricing_items) = 2
    /\ response.totals.total_excl_tax > response.totals.subtotal_direct_cost

-----------------------------------------------------------------------------
(* C5: the multiplier is defined for every (risk_level, strategy): base     *)
(* 1.00 low, 1.05 medium, 1.10 high, 1.05 for an unrecognized level;        *)
(* low_cost takes 0.02 off, premium adds 0.03, balanced or an unrecognized  *)
(* strategy changes nothing; the result is never below 0.90.                *)
ClaimedMultiplier(risk_level, strat) ==
    (IF risk_level = "low" THEN 100
     ELSE IF risk_level = "high" THEN 110
     ELSE 105)
    + (IF strat = "low_cost" THEN -2
       ELSE IF strat = "premium" THEN 3
       ELSE 0)

C5_RiskMultiplier ==
    BuildDone =>
        \A k \in 1..Len(pricing_items) :
            LET item == PricingItemInput(pricing_items[k])
                line == response.line_items[k]
            IN  /\ line.effective_unit_cost
                        = item.base_unit_cost * ClaimedMultiplier(item.risk_level, strategy)
                /\ line.effective_unit_cost >= item.base_unit_cost * 90

C5_Witness ==
    /\ BuildDone
    /\ strategy = "aggressive"
    /\ \E k \in 1..Len(pricing_items) :
            /\ PricingItemInput(pricing_items[k]).risk_level = "extreme"
            /\ response.line_items[k].effective_unit_cost = 10500

-----------------------------------------------------------------------------
(* C6: compare_pricing_scenarios with strategies omitted or empty yields    *)
(* exactly three scenarios keyed low_cost, balanced, premium and three      *)
(* summary rows, in that order.                                             *)
SummaryStrategies ==
    [i \in 1..Len(response.comparison.by_strategy) |->
        response.comparison.by_strategy[i].strategy]

C6_DefaultStrategies ==
    (CompareDone /\ (strategies = Omitted \/ strategies = Given(<<>>))) =>
        /\ DictKeys(response.scenarios) = <<"low_cost", "balanced", "premium">>
        /\ SummaryStrategies = <<"low_cost", "balanced", "premium">>

C6_Witness ==
    /\ CompareDone
    /\ strategies = Given(<<>>)
    /\ pricing_items # <<>>
    /\ Len(response.scenarios) = 3
    /\ Len(response.comparison.by_strategy) = 3

-----------------------------------------------------------------------------
(* C7: the comparison keeps the caller's strategy order and neither drops   *)
(* duplicates nor reorders: n listed strategies give n summary rows, row i  *)
(* naming strategies[i]; every listed strategy has its full priced model;   *)
(* the same strategy listed twice gives two rows.                           *)
ListedStrategies == strategies[1]

C7_OrderKept ==
    (CompareDone /\ strategies # Omitted /\ strategies # Given(<<>>)) =>
        /\ Len(response.comparison.by_strategy) = Len(ListedStrategies)
        /\ \A i \in 1..Len(ListedStrategies) :
                LET row == response.comparison.by_strategy[i]
                IN  /\ row.strategy = ListedStrategies[i]
                    /\ DictHas(response.scenarios, row.strategy)
                    /\ LET model == DictGet(response.scenarios, row.strategy)
                       IN  /\ model.strategy = row.strategy
                           /\ Len(model.line_items) = Len(pricing_items)
                           /\ row.total_excl_tax = model.totals.total_excl_tax
                           /\ row.total_incl_tax = model.totals.total_incl_tax
                           /\ row.profit_amount = model.totals.profit_amount
                           /\ row.overhead_amount = model.totals.overhead_amount
                           /\ row.contingency_amount = model.totals.contingency_amount

C7_Witness ==
    /\ CompareDone
    /\ strategies = Given(<<"premium", "premium">>)
    /\ Len(response.comparison.by_strategy) = 2
    /\ Len(response.scenarios) = 1

-----------------------------------------------------------------------------
(* C8: N items give N line_items; line k comes from item k (same            *)
(* description, quantity, unit, category, risk_level, notes, hints) and     *)
(* has line_no = k.                                                         *)
C8_LinesInInputOrder ==
    BuildDone =>
        /\ Len(response.line_items) = Len(pricing_items)
        /\ \A k \in 1..Len(pricing_items) :
                LET item == PricingItemInput(pricing_items[k])
                    line == response.line_items[k]
                IN  /\ line.line_no = k
                    /\ line.description = item.description
                    /\ line.quantity = item.quantity
                    /\ line.unit = item.unit
                    /\ line.category = item.category
                    /\ line.risk_level = item.risk_level
                    /\ line.notes = item.notes
                    /\ line.cost_basis_hint = item.cost_basis_hint
                    /\ line.escalation_hint = item.escalation_hint

C8_Witness ==
    /\ BuildDone
    /\ Len(pricing_items) = 2
    /\ pricing_items[1].description = "B"
    /\ pricing_items[2].description = "A"
    /\ response.line_items[1].description = "B"
    /\ response.line_items[2].line_no = 2

-----------------------------------------------------------------------------
(* C9: an empty item list, under any strategy and percentages, raises no    *)
(* error and gives empty line_items and every amount of totals 0.00.        *)
C9_EmptyItems ==
    (pc = "done" /\ tool = "build_pricing_model" /\ pricing_items = <<>>) =>
        /\ DOMAIN response = {"strategy", "inputs", "line_items", "totals"}
        /\ response.line_items = <<>>
        /\ response.totals.subtotal_direct_cost = 0
        /\ response.totals.overhead_amount = 0
        /\ response.totals.contingency_amount = 0
        /\ response.totals.profit_amount = 0
        /\ response.totals.tax_amount = 0
        /\ response.totals.total_excl_tax = 0
        /\ response.totals.total_incl_tax = 0

C9_Witness ==
    /\ pc = "done"
    /\ tool = "build_pricing_model"
    /\ pricing_items = <<>>
    /\ strategy = "premium"
    /\ overhead_pct = -150
    /\ response.totals.total_incl_tax = 0

-----------------------------------------------------------------------------
(* C10: a line with quantity 0 or base_unit_cost 0 has line total 0.00, and *)
(* the subtotal is what it would be without that item.                      *)
ZeroLine(item) == item.quantity = 0 \/ item.base_unit_cost = 0

\* the list without its k-th element
Without(seq, k) ==
    [i \in 1..(Len(seq) - 1) |-> IF i < k THEN seq[i] ELSE seq[i + 1]]

\* the subtotal build_pricing_table stores for the given items
StoredSubtotal(typed_items) ==
    Round2Cents(ItemLoopResult(typed_items, strategy).subtotal_direct_cost)

C10_ZeroLines ==
    BuildDone =>
        \A k \in 1..Len(pricing_items) :
            ZeroLine(PricingItemInput(pricing_items[k])) =>
                /\ response.line_items[k].line_total_excl_markups = 0
                /\ response.totals.subtotal_direct_cost
                        = StoredSubtotal(Without(TypedItems(pricing_items), k))

C10_Witness ==
    /\ BuildDone
    /\ Len(pricing_items) = 2
    /\ PricingItemInput(pricing_items[1]).quantity = 0
    /\ PricingItemInput(pricing_items[1]).base_unit_cost = 100
    /\ response.line_items[1].line_total_excl_markups = 0
    /\ response.line_items[2].line_total_excl_markups > 0
    /\ response.totals.subtotal_direct_cost
            = response.line_items[2].line_total_excl_markups

-----------------------------------------------------------------------------
(* C11: category and risk_level are closed enumerations: an item whose      *)
(* category or risk_level is outside them is rejected or gets "other" /     *)
(* "medium", so no priced line carries a value outside the enumerations.    *)
(* The code copies both fields as given; read on the responses the exact    *)
(* arithmetic determines.                                                   *)
Categories == {"labour", "materials", "equipment", "other"}

RiskLevels == {"low", "medium", "high"}

C11_ClosedEnumerations ==
    (BuildDone /\ TableDetermined(strategy)) =>
        \A k \in 1..Len(response.line_items) :
            /\ response.line_items[k].category \in Categories
            /\ response.line_items[k].risk_level \in RiskLevels

-----------------------------------------------------------------------------
(* C12: two items alike in every field but risk_level, "low" against        *)
(* "high", priced under "premium", get different effective_unit_cost, and   *)
(* the multiplier of the low-risk one is still at least 0.90.               *)
AlikeButRisk(a, b) ==
    /\ a.risk_level = "low"
    /\ b.risk_level = "high"
    /\ \A key \in ItemKeys \ {"risk_level"} : a[key] = b[key]

RiskSpread(i, j) ==
    /\ response.line_items[i].effective_unit_cost
            # response.line_items[j].effective_unit_cost
    /\ response.line_items[i].effective_unit_cost
            >= 90 * PricingItemInput(pricing_items[i]).base_unit_cost

\* the claim as stated: for any two such items
C12_RiskSpread_AnyCost ==
    (BuildDone /\ strategy = "premium") =>
        \A i, j \in 1..Len(pricing_items) :
            AlikeButRisk(PricingItemInput(pricing_items[i]),
                         PricingItemInput(pricing_items[j]))
                => RiskSpread(i, j)

\* C12 as amended: for a base_unit_cost of at least 0.20
C12_RiskSpread ==
    (BuildDone /\ strategy = "premium") =>
        \A i, j \in 1..Len(pricing_items) :
            (/\ AlikeButRisk(PricingItemInput(pricing_items[i]),
                             PricingItemInput(pricing_items[j]))
             /\ 100 * PricingItemInput(pricing_items[i]).base_unit_cost >= 20)
                => RiskSpread(i, j)

C12_Witness ==
    /\ BuildDone
    /\ strategy = "premium"
    /\ Len(pricing_items) = 2
    /\ AlikeButRisk(PricingItemInput(pricing_items[1]),
                    PricingItemInput(pricing_items[2]))
    /\ response.line_items[1].effective_unit_cost = 10300
    /\ response.line_items[2].effective_unit_cost = 11300

-----------------------------------------------------------------------------
(* C13: compare_pricing_scenarios prices every listed strategy with the     *)
(* same items and percentages: the call leaves pricing_items and the        *)
(* percentages as they were, every scenario's inputs block equals the       *)
(* caller's percentages and currency symbol, and the scenarios' line_items  *)
(* agree in every field but effective_unit_cost and                         *)
(* line_total_excl_markups.                                                 *)
CallerInputs ==
    [overhead_pct      |-> overhead_pct,
     profit_margin_pct |-> profit_margin_pct,
     contingency_pct   |-> contingency_pct,
     tax_rate_pct      |-> tax_rate_pct,
     currency_symbol   |-> currency_symbol]

\* a line without the two fields the strategy decides
StrategyFreeFields(line) ==
    [key \in DOMAIN line \ {"effective_unit_cost", "line_total_excl_markups"} |->
        line[key]]

ScenariosShareInputs ==
    CompareDone =>
        /\ \A i \in 1..Len(response.scenarios) :
                /\ response.scenarios[i].value.inputs = CallerInputs
                /\ Len(response.scenarios[i].value.line_items) = Len(pricing_items)
        /\ \A i, j \in 1..Len(response.scenarios) :
                \A k \in 1..Len(pricing_items) :
                    StrategyFreeFields(response.scenarios[i].value.line_items[k])
                        = StrategyFreeFields(response.scenarios[j].value.line_items[k])

CompareLeavesArguments ==
    (tool = "compare_pricing_scenarios" /\ pc = "request" /\ pc' = "done") =>
        /\ pricing_items' = pricing_items
        /\ overhead_pct' = overhead_pct
        /\ profit_margin_pct' = profit_margin_pct
        /\ contingency_pct' = contingency_pct
        /\ tax_rate_pct' = tax_rate_pct
        /\ currency_symbol' = currency_symbol

C13_FixedInputs == []ScenariosShareInputs /\ [][CompareLeavesArguments]_vars

C13_Witness ==
    /\ CompareDone
    /\ Len(pricing_items) = 2
    /\ Len(response.scenarios) = 3
    /\ response.scenarios[1].value.line_items[1].effective_unit_cost
            # response.scenarios[3].value.line_items[1].effective_unit_cost
    /\ response.scenarios[3].value.inputs.profit_margin_pct = 20

-----------------------------------------------------------------------------
(* C14 *)

\* pricing_entrypoint has returned
EntrypointDone ==
    /\ pc = "done"
    /\ tool = "pricing_entrypoint"

\* pricing_requirements is None or the empty list
NoRequirements ==
    pricing_requirements = Omitted \/ pricing_requirements = Given(<<>>)

\* parsed_pricing_spec_text is a string that is not empty
TextSupplied == parsed_pricing_spec_text # None /\ parsed_pricing_spec_text # ""

SuppliedTenderFields ==
    [tender_id        |-> tender_id,
     tender_title     |-> tender_title,
     tender_reference |-> tender_reference,
     tender_type      |-> tender_type]

\* C14: pricing_entrypoint returns status "missing_pricing_spec" with
\* needs_pricing_spec true exactly when pricing_requirements is None or
\* empty, and no pricing_analysis then; otherwise it returns status
\* "ready_for_pricing_model" with needs_pricing_spec false, the supplied
\* pricing_requirements unchanged, and a pricing_analysis that is not None
\* exactly when parsed_pricing_spec_text is not empty; the tender_context
\* of both outcomes holds the supplied tender fields.
C14_Entrypoint ==
    EntrypointDone =>
        /\ response.tender_context = SuppliedTenderFields
        /\ IF NoRequirements
           THEN /\ response.status = "missing_pricing_spec"
                /\ response.needs_pricing_spec = TRUE
                /\ "pricing_analysis" \notin DOMAIN response
           ELSE /\ response.status = "ready_for_pricing_model"
                /\ response.needs_pricing_spec = FALSE
                /\ response.pricing_requirements = pricing_requirements[1]
                /\ (response.pricing_analysis # Omitted) <=> TextSupplied

\* two requirements and a text with one numeric line were passed, and came
\* back with the analysis of the text
C14_Witness ==
    /\ EntrypointDone
    /\ ~NoRequirements
    /\ TextSupplied
    /\ tender_title # None
    /\ response.status = "ready_for_pricing_model"
    /\ Len(response.pricing_requirements) = 2
    /\ response.pricing_analysis # Omitted
    /\ response.pricing_analysis[1].estimated_numeric_lines = 1
    /\ response.pricing_analysis[1].detected_currency = "ZAR"
    /\ response.pricing_analysis[1].flags.mentions_vat_inclusive

=============================================================================
